---------------------------- MODULE Spec2Model ----------------------------
(***************************************************************************)
(* Letterboxd movie recommender: the scraper (Project/readRatings.py), the *)
(* ingestion of one account (Project/ingestRatings.py), the batch driver   *)
(* (Project/buildMovieDatabase.py) and the store operations                *)
(* (Project/database.py).                                                  *)
(*                                                                         *)
(* Python's None is the empty tuple <<>>, a present value v is <<v>>.      *)
(* A string of rating glyphs is a sequence over Glyphs.                    *)
(***************************************************************************)
EXTENDS Integers, Sequences, FiniteSets, Bags, TLC

VARIABLES
    star_str,      \* stars_to_score: the argument
    called,        \* stars_to_score: whether the call has returned
    score,         \* stars_to_score: the returned value
    userList,      \* build_database: the accounts to process, in order
    idx,           \* build_database: 1-based position of the loop in userList
    pc,            \* where the batch run stands
    display_name,  \* fetch_rating_info: display_name
    page,          \* fetch_rating_info: the loop variable page
    all_films,     \* fetch_rating_info: all_films
    requests,      \* the HTTP requests of the current account and their responses
    failed,        \* the store operations of the current account that raised DatabaseError
    attempted,     \* the store operations the current account's ingestion has called, in order
    prior,         \* the tables as they were when the current account's ingestion started
    ratings,       \* table ratings: a bag of rows
    movies,        \* table movies: a set of rows
    user_pool,     \* table user_pool: a bag of rows
    api,           \* the last call made directly on the database module, or None
    fetch_years,   \* getUserMovies.fetch_rating_info: the argument fetch_years
    tasks,         \* the enrichment pass: the state of the task of each film
    year_sem,      \* the enrichment pass: the value of the semaphore year_sem
    year           \* the enrichment pass: film["year"] of each film

starVars  == <<star_str, called, score>>
batchVars == <<userList, idx, pc>>
fetchVars == <<display_name, page, all_films, requests>>
dbVars    == <<ratings, movies, user_pool>>
ingestVars == <<failed, attempted, prior>>
yearVars  == <<fetch_years, tasks, year_sem, year>>
vars == <<star_str, called, score, userList, idx, pc, display_name, page,
          all_films, requests, failed, attempted, prior, ratings, movies,
          user_pool, api, fetch_years, tasks, year_sem, year>>

-----------------------------------------------------------------------------
(* Bounds of the model *)

\* longest rating string given to stars_to_score
MaxTokenLen == 6
\* the max_pages argument of fetch_rating_info (50 by default in the code)
MaxPages == 2
\* most <li> elements on one listing page
MaxItems == 1
\* most accounts in one batch
MaxBatch == 2
\* most films one account's listing pages hold together
MaxFilms == 2
\* largest rating_amount a movies row is driven to
MaxAmount == 2
\* most direct calls of upsert_user_pool in one run
MaxCalls == 3
\* the concurrency argument of getUserMovies.fetch_rating_info (20 by default)
Concurrency == 2
\* the max_pages argument of getUserMovies.fetch_rating_info, one film a page
MaxYearFilms == 3

Users  == {"u1", "u2"}
Slugs  == {"s1", "s2"}
Names  == {"n1"}
Titles == {"t1"}
Posters == {"p1"}
Years  == {1999}
Amounts == {1}
Glyphs == {"full", "half", "other"}

None == <<>>
Some(v) == <<v>>
Opt(S) == {None} \cup {Some(v) : v \in S}

\* Python truthiness of an optional integer: None and 0 are falsy
Truthy(o) == o # None /\ o[1] # 0

-----------------------------------------------------------------------------
(* stars_to_score *)

RECURSIVE Count(_, _)
\* str.count(g): the occurrences of glyph g in s
Count(s, g) ==
    IF s = <<>> THEN 0
    ELSE (IF Head(s) = g THEN 1 ELSE 0) + Count(Tail(s), g)

\* readRatings.stars_to_score with full*2 replaced by full: a plausible slip
stars_to_score_unweighted(s) ==
    IF s = None \/ s[1] = <<>> THEN None
    ELSE Some(Count(s[1], "full") + Count(s[1], "half"))

\* readRatings.stars_to_score; s is None or Some(string)
stars_to_score(s) ==
    IF s = None \/ s[1] = <<>> THEN None
    ELSE Some(Count(s[1], "full") * 2 + Count(s[1], "half"))

RECURSIVE SeqsUpTo(_, _)
\* all sequences over S of length at most n
SeqsUpTo(S, n) ==
    IF n = 0 THEN {<<>>}
    ELSE LET shorter == SeqsUpTo(S, n - 1)
         IN  shorter \cup {Append(s, x) : s \in shorter, x \in S}

Tokens == SeqsUpTo(Glyphs, MaxTokenLen)

\* f full marks followed by h half marks
Stars(f, h) == [i \in 1..(f + h) |-> IF i <= f THEN "full" ELSE "half"]


-----------------------------------------------------------------------------
(* database.py: the tables and the statements run on them.                 *)
(* Every statement runs in one transaction (execute, then conn.commit()):  *)
(* it takes effect whole or, when it raises, not at all.                   *)

RatingRow(u, r, l, s) == [user_id |-> u, rating |-> r, liked |-> l, movie_id |-> s]
MovieRow(s, t, p, y, a) ==
    [movie_id |-> s, title |-> t, poster_link |-> p, release_year |-> y,
     rating_amount |-> a]
PoolRow(u, n, p) == [user_id |-> u, username |-> n, last_page_scraped |-> p]

\* the columns of the unique constraint of table ratings (the table's DDL
\* is not part of the sources; the key is the one the specification names)
ratings_key(r) == <<r.user_id, r.movie_id>>

\* the value of movies.rating_amount in a row inserted without it (the DDL is
\* not part of the sources; a column without a DEFAULT clause is NULL)
rating_amount_default == None

\* SQL a + b: NULL when either side is NULL
SqlAdd(a, b) == IF a = None \/ b = None THEN None ELSE Some(a[1] + b[1])

\* SQL COALESCE(a, b)
Coalesce(a, b) == IF a # None THEN a ELSE b

\* INSERT INTO ratings of one row with no ON CONFLICT clause acting
InsertRatingRowAlways(tbl, r) == tbl (+) SetToBag({r})

\* INSERT INTO ratings ... ON CONFLICT ... DO UPDATE: the incoming row replaces
\* the stored one
InsertRatingRowOverwrite(tbl, r) ==
    LET kept == {x \in BagToSet(tbl) : ratings_key(x) # ratings_key(r)}
    IN  [x \in kept |-> tbl[x]] (+) SetToBag({r})

\* INSERT INTO ratings ... ON CONFLICT DO NOTHING, one row
InsertRatingRow(tbl, r) ==
    IF \E x \in BagToSet(tbl) : ratings_key(x) = ratings_key(r)
    THEN tbl
    ELSE tbl (+) SetToBag({r})

RECURSIVE InsertRatingRows(_, _)
\* the rows of one VALUES list, inserted in order
InsertRatingRows(tbl, rows) ==
    IF rows = <<>> THEN tbl
    ELSE InsertRatingRows(InsertRatingRow(tbl, Head(rows)), Tail(rows))

\* database.insert_ratings(ratings): the table after the call
database_insert_ratings(tbl, rows) == InsertRatingRows(tbl, rows)

\* the row of tbl with this movie_id, as a set of zero or one row
MovieOf(tbl, s) == {m \in tbl : m.movie_id = s}

\* ON CONFLICT (movie_id) DO UPDATE of insert_movies with the COALESCE
\* arguments swapped away: the incoming value always replaces the stored one
MergeMovieOverwrite(e, x) ==
    MovieRow(e.movie_id, x.title, x.poster_link, x.release_year,
             SqlAdd(e.rating_amount, x.rating_amount))

\* ON CONFLICT (movie_id) DO UPDATE of insert_movies with rating_amount
\* replaced instead of incremented
MergeMovieReplaceAmount(e, x) ==
    MovieRow(e.movie_id, Coalesce(x.title, e.title),
             Coalesce(x.poster_link, e.poster_link),
             Coalesce(x.release_year, e.release_year), x.rating_amount)

\* ON CONFLICT (movie_id) DO UPDATE of insert_movies: e the stored row,
\* x the incoming one (EXCLUDED)
MergeMovie(e, x) ==
    MovieRow(e.movie_id,
             Coalesce(x.title, e.title),
             Coalesce(x.poster_link, e.poster_link),
             Coalesce(x.release_year, e.release_year),
             SqlAdd(e.rating_amount, x.rating_amount))

\* INSERT ... ON CONFLICT (movie_id) DO UPDATE, one row
UpsertMovieRow(tbl, x) ==
    IF MovieOf(tbl, x.movie_id) = {} THEN tbl \cup {x}
    ELSE {IF m.movie_id = x.movie_id THEN MergeMovie(m, x) ELSE m : m \in tbl}

RECURSIVE UpsertMovieRows(_, _)
UpsertMovieRows(tbl, films) ==
    IF films = <<>> THEN tbl
    ELSE UpsertMovieRows(UpsertMovieRow(tbl, Head(films)), Tail(films))

\* insert_movies raises (PostgreSQL: "ON CONFLICT DO UPDATE command cannot
\* affect row a second time") when one VALUES list names a movie_id twice
insert_movies_raises(films) ==
    \E i, j \in 1..Len(films) : i # j /\ films[i].movie_id = films[j].movie_id

\* database.insert_movies(films): the table after a call that does not raise
database_insert_movies(tbl, films) == UpsertMovieRows(tbl, films)

\* INSERT INTO movies (movie_id) of prefill_movies turned into an upsert that
\* counts one rating per row
PrefillMovieRowCounting(tbl, s) ==
    UpsertMovieRow(tbl, MovieRow(s, None, None, None, Some(1)))

\* INSERT INTO MOVIES (movie_id) ... ON CONFLICT (movie_id) DO NOTHING, one row
PrefillMovieRow(tbl, s) ==
    IF MovieOf(tbl, s) # {} THEN tbl
    ELSE tbl \cup {MovieRow(s, None, None, None, rating_amount_default)}

RECURSIVE PrefillMovieRows(_, _)
PrefillMovieRows(tbl, rows) ==
    IF rows = <<>> THEN tbl
    ELSE PrefillMovieRows(PrefillMovieRow(tbl, Head(rows)[1]), Tail(rows))

\* database.prefill_movies(movies); movies is a list of 1-tuples (slug,)
database_prefill_movies(tbl, rows) == PrefillMovieRows(tbl, rows)

\* upsert_user_pool as a plain INSERT that keeps the stored row
upsert_user_pool_insert_only(tbl, u, n, p) == tbl \cup {PoolRow(u, n, p)}

\* upsert_user_pool with ON CONFLICT ... DO NOTHING: the first write wins
upsert_user_pool_first_wins(tbl, u, n, p) ==
    IF \E r \in tbl : r.user_id = u THEN tbl ELSE tbl \cup {PoolRow(u, n, p)}

\* upsert_user_pool that empties the table before its INSERT
upsert_user_pool_truncating(tbl, u, n, p) == {PoolRow(u, n, p)}

\* database.upsert_user_pool(user_id, display_name, last_page)
database_upsert_user_pool(tbl, u, n, p) ==
    {r \in tbl : r.user_id # u} \cup {PoolRow(u, n, p)}

RowCount(tbl) == BagCardinality(tbl)

-----------------------------------------------------------------------------
(* readRatings.py: the listing pages and fetch_rating_info                 *)

\* One <li class="griditem"> of a listing page:
\*   react    the <div class="react-component"> is there
\*   slug     its data-item-slug attribute, None when missing or empty
\*   viewing  the <p class="poster-viewingdata"> is there
\*   span     the text of its <span class="rating">, None when there is no span
\*   like     its <span class="like"> carries the class liked-micro
Li(react, slug, viewing, span, like) ==
    [react |-> react, slug |-> slug, viewing |-> viewing, span |-> span, like |-> like]

NoReactLi == Li(FALSE, None, FALSE, None, FALSE)
NoSlugLi  == Li(TRUE, None, FALSE, None, FALSE)

\* the <li> elements over these slugs and rating texts
Lis(slugs, tokens) ==
    {NoReactLi, NoSlugLi}
    \cup {Li(TRUE, Some(s), FALSE, None, FALSE) : s \in slugs}
    \cup {Li(TRUE, Some(s), TRUE, sp, lk) :
            s \in slugs, sp \in Opt(tokens), lk \in BOOLEAN}

Film(slug, name, rating, liked, pg) ==
    [slug |-> slug, display_name |-> name, rating |-> rating, liked |-> liked,
     page |-> pg]

\* the body of "for li in items" with both "continue" statements dropped
ExtractLiNoSkip(li, pg, name) ==
    <<Film(IF li.slug = None THEN "" ELSE li.slug[1], name,
           IF li.viewing /\ li.span # None THEN stars_to_score(li.span) ELSE None,
           li.viewing /\ li.like, pg)>>

\* the body of "for li in items": the films (none or one) it appends; the
\* keys title, poster_url and year of the dict are left out, nothing reads them
ExtractLi(li, pg, name) ==
    IF ~li.react THEN <<>>
    ELSE IF li.slug = None THEN <<>>
    ELSE <<Film(li.slug[1], name,
                IF li.viewing /\ li.span # None THEN stars_to_score(li.span) ELSE None,
                li.viewing /\ li.like, pg)>>

RECURSIVE ExtractItems(_, _, _)
\* "for li in items" over one page
ExtractItems(items, pg, name) ==
    IF items = <<>> THEN <<>>
    ELSE ExtractLi(Head(items), pg, name) \o ExtractItems(Tail(items), pg, name)

\* A response to session.get: the request raised (timeout, transport error),
\* or an HTTP response with a status and a document
ErrorResponse == [kind |-> "error", status |-> 0, ul |-> FALSE, items |-> <<>>]
HttpResponse(status, ul, items) ==
    [kind |-> "http", status |-> status, ul |-> ul, items |-> items]

\* the documents a listing URL can answer with: no <ul> container, or a
\* container with up to MaxItems <li>
PageResponses(lis) ==
    {ErrorResponse}
    \cup {HttpResponse(st, FALSE, <<>>) : st \in {200, 404}}
    \cup {HttpResponse(st, TRUE, items) :
            st \in {200, 404}, items \in SeqsUpTo(lis, MaxItems)}

\* what the page loop reads of a response: the body only when the status is 200
Seen(r) == IF r.kind = "http" /\ r.status # 200
           THEN HttpResponse(r.status, FALSE, <<>>) ELSE r

\* the response to the GET of first_url: it raised, or the profile heading
FirstResponses == {[kind |-> "error", name |-> None]}
                  \cup {[kind |-> "http", name |-> n] : n \in Opt(Names)}

Request(url, pg, resp) == [url |-> url, page |-> pg, resp |-> resp]

\* the rating texts of the listing pages: no text, text without a mark,
\* three and a half stars, six stars
PageTokens == {<<>>, <<"other">>, Stars(3, 1), Stars(6, 0)}

\* the <li> elements of the pages a batch run is served: films of every slug
\* rated three and a half stars and liked, or six stars and not liked, and
\* one film without a rating
BatchLis ==
    {li \in Lis(Slugs, PageTokens) :
        /\ li.react /\ li.slug # None /\ li.viewing
        /\ \/ li.span = Some(Stars(3, 1)) /\ li.like
           \/ li.span = Some(Stars(6, 0)) /\ ~li.like
           \/ li.span = None /\ ~li.like /\ li.slug = Some("s1")}

\* the <li> elements of the pages a single account's run is served: every
\* shape of <li> the parser tells apart, over one slug; the like mark varies
\* on the film without a rating span and on the film rated three and a half
AccountLis ==
    {li \in Lis({"s1"}, PageTokens \ {Stars(6, 0)}) :
        li.like => li.span \in {None, Some(Stars(3, 1))}}

-----------------------------------------------------------------------------
(* ingestRatings.py: the rows prepared from the scraped films              *)

RECURSIVE RatingRowsOfUnfiltered(_, _)
\* rating_rows built without "if rating is not None": a film without a rating
\* is submitted with rating 0
RatingRowsOfUnfiltered(username, films) ==
    IF films = <<>> THEN <<>>
    ELSE LET f == Head(films)
         IN  <<RatingRow(username, IF f.rating = None THEN 0 ELSE f.rating[1],
                         f.liked, f.slug)>>
             \o RatingRowsOfUnfiltered(username, Tail(films))

RECURSIVE RatingRowsOf(_, _)
\* rating_rows: one row per film whose rating is truthy
RatingRowsOf(username, films) ==
    IF films = <<>> THEN <<>>
    ELSE LET f == Head(films)
             rest == RatingRowsOf(username, Tail(films))
         IN  IF Truthy(f.rating)
             THEN <<RatingRow(username, f.rating[1], f.liked, f.slug)>> \o rest
             ELSE rest

RECURSIVE MoviesRowOf(_)
\* movies_row: one (slug,) per film whose rating is truthy
MoviesRowOf(films) ==
    IF films = <<>> THEN <<>>
    ELSE LET f == Head(films)
         IN  IF Truthy(f.rating) THEN <<(<<f.slug>>)>> \o MoviesRowOf(Tail(films))
             ELSE MoviesRowOf(Tail(films))

\* films[0]["page"]: the first film's page instead of the last one's
LastPageOfFirst(films) == films[1].page

\* last["page"] with last = films[-1]
LastPageOf(films) == films[Len(films)].page

\* last["display_name"]
DisplayNameOf(films) == films[Len(films)].display_name

username == userList[idx]

\* the tables <<ratings, movies, user_pool>> after the three store operations
\* of insert_ratings for account u with these films, each one committing
IngestAll(db, u, films) ==
    <<database_insert_ratings(db[1], RatingRowsOf(u, films)),
      database_prefill_movies(db[2], MoviesRowOf(films)),
      database_upsert_user_pool(db[3], u, DisplayNameOf(films), LastPageOf(films))>>

-----------------------------------------------------------------------------
(* The batch run: build_database -> ingestRatings.main -> insert_ratings   *)
(* -> fetch_rating_info, then the three store operations.                  *)
(* pc: "loop" (the for statement of build_database), "fetch_first" (the GET*)
(* of first_url), "page_loop" (the GET of a listing page), "scraped"       *)
(* (fetch_rating_info has returned), "insert_ratings", "upsert_user_pool", *)
(* "prefill_movies" (the next store operation), "ingested" (the three      *)
(* store operations are over), "done" (build_database has returned),       *)
(* "crashed" (an exception left build_database).                           *)

\* build_database: the for statement takes the next account; ingestion
\* starts and fetch_rating_info opens its session with all_films = []
BuildDatabaseNext ==
    /\ pc = "loop"
    /\ idx <= Len(userList)
    /\ pc' = "fetch_first"
    /\ prior' = dbVars
    /\ UNCHANGED <<yearVars, userList, idx, fetchVars, failed, attempted, dbVars, starVars, api>>

\* build_database: the for statement is exhausted
BuildDatabaseEnd ==
    /\ pc = "loop"
    /\ idx > Len(userList)
    /\ pc' = "done"
    /\ UNCHANGED <<yearVars, userList, idx, fetchVars, ingestVars, dbVars, starVars, api>>

\* fetch_rating_info, step 1: GET first_url and read the display name; the
\* status is not looked at, an exception of session.get is not caught
FetchFirstPage ==
    /\ pc = "fetch_first"
    /\ \E r \in FirstResponses :
        /\ requests' = Append(requests, Request("first", 0, r))
        /\ IF r.kind = "error"
           THEN pc' = "crashed" /\ UNCHANGED display_name
           ELSE pc' = "page_loop" /\ display_name' = r.name
    /\ UNCHANGED <<yearVars, userList, idx, page, all_films, ingestVars, dbVars, starVars, api>>

\* the page loop with "if resp.status != 200: break" dropped
PageEndsLoopIgnoringStatus(r) == ~r.ul \/ r.items = <<>>

\* the three break statements of the page loop: a status other than 200, no
\* <ul> container, no <li> in it
PageEndsLoop(r) == r.status # 200 \/ ~r.ul \/ r.items = <<>>

\* range(1, max_pages + 1, 2): every second page
NextPageSkipping(p) == p + 2

\* range(1, max_pages + 1): the value after p
NextPage(p) == p + 1

\* range(1, max_pages + 2): one page more than max_pages
RangeExhaustedLate(p) == p >= MaxPages + 1

\* range(1, max_pages + 1) has no value after p
RangeExhausted(p) == p >= MaxPages

\* fetch_rating_info, step 2: one round of "for page in range(1, max_pages + 1)"
FetchPage(lis) ==
    /\ pc = "page_loop"
    /\ \E r \in PageResponses(lis) :
        /\ Len(all_films) + Len(ExtractItems(r.items, page, display_name)) <= MaxFilms
        /\ requests' = Append(requests, Request("page", page, Seen(r)))
        /\ IF r.kind = "error"
           THEN pc' = "crashed" /\ UNCHANGED <<page, all_films>>
           ELSE IF PageEndsLoop(r)
           THEN pc' = "scraped" /\ UNCHANGED <<page, all_films>>
           ELSE /\ all_films' = all_films \o ExtractItems(r.items, page, display_name)
                /\ IF RangeExhausted(page)
                   THEN pc' = "scraped" /\ UNCHANGED page
                   ELSE pc' = "page_loop" /\ page' = NextPage(page)
    /\ UNCHANGED <<yearVars, userList, idx, display_name, ingestVars, dbVars, starVars, api>>

\* ingestRatings.insert_ratings after the scrape: the rows are prepared, then
\* films[-1] raises IndexError when films is empty
IngestPrepare ==
    /\ pc = "scraped"
    /\ pc' = IF all_films = <<>> THEN "crashed" ELSE "insert_ratings"
    /\ UNCHANGED <<yearVars, userList, idx, fetchVars, ingestVars, dbVars, starVars, api>>

\* database.insert_ratings(rating_rows) called outside any try statement: a
\* DatabaseError leaves insert_ratings
InsertRatingsStepUncaught(oks) ==
    /\ pc = "insert_ratings"
    /\ \E ok \in oks :
        IF ok
        THEN /\ ratings' = database_insert_ratings(ratings, RatingRowsOf(username, all_films))
             /\ pc' = "upsert_user_pool"
             /\ UNCHANGED failed
        ELSE /\ failed' = failed \cup {"insert_ratings"}
             /\ pc' = "crashed"
             /\ UNCHANGED ratings
    /\ attempted' = Append(attempted, "insert_ratings")
    /\ UNCHANGED <<yearVars, prior, userList, idx, fetchVars, movies, user_pool, starVars, api>>

\* try: database.insert_ratings(rating_rows) / except DatabaseError; oks
\* holds the outcomes the store can have: TRUE the statement commits, FALSE
\* it raises DatabaseError
InsertRatingsStep(oks) ==
    /\ pc = "insert_ratings"
    /\ \E ok \in oks :
        IF ok
        THEN /\ ratings' = database_insert_ratings(ratings, RatingRowsOf(username, all_films))
             /\ UNCHANGED failed
        ELSE /\ failed' = failed \cup {"insert_ratings"}
             /\ UNCHANGED ratings
    /\ attempted' = Append(attempted, "insert_ratings")
    /\ pc' = "upsert_user_pool"
    /\ UNCHANGED <<yearVars, prior, userList, idx, fetchVars, movies, user_pool, starVars, api>>

\* try: database.upsert_user_pool(username, display_name, last_page) / except
UpsertUserPoolStep(oks) ==
    /\ pc = "upsert_user_pool"
    /\ \E ok \in oks :
        IF ok
        THEN /\ user_pool' = database_upsert_user_pool(user_pool, username,
                                 DisplayNameOf(all_films), LastPageOf(all_films))
             /\ UNCHANGED failed
        ELSE /\ failed' = failed \cup {"upsert_user_pool"}
             /\ UNCHANGED user_pool
    /\ attempted' = Append(attempted, "upsert_user_pool")
    /\ pc' = "prefill_movies"
    /\ UNCHANGED <<yearVars, prior, userList, idx, fetchVars, ratings, movies, starVars, api>>

\* try: database.prefill_movies(movies_row) / except
PrefillMoviesStep(oks) ==
    /\ pc = "prefill_movies"
    /\ \E ok \in oks :
        IF ok
        THEN /\ movies' = database_prefill_movies(movies, MoviesRowOf(all_films))
             /\ UNCHANGED failed
        ELSE /\ failed' = failed \cup {"prefill_movies"}
             /\ UNCHANGED movies
    /\ attempted' = Append(attempted, "prefill_movies")
    /\ pc' = "ingested"
    /\ UNCHANGED <<yearVars, prior, userList, idx, fetchVars, ratings, user_pool, starVars, api>>

\* ingestRatings.insert_ratings and main return, their locals are gone, and
\* the for statement of build_database goes on
IngestReturn ==
    /\ pc = "ingested"
    /\ pc' = "loop"
    /\ idx' = idx + 1
    /\ display_name' = None /\ page' = 1 /\ all_films' = <<>> /\ requests' = <<>>
    /\ failed' = {} /\ attempted' = <<>> /\ prior' = dbVars
    /\ UNCHANGED <<yearVars, userList, dbVars, starVars, api>>

\* the account lists of a batch
UserLists == SeqsUpTo(Users, MaxBatch) \ {<<>>}

Init ==
    /\ star_str = None /\ called = TRUE /\ score = None
    /\ userList \in UserLists
    /\ idx = 1
    /\ pc = "loop"
    /\ display_name = None /\ page = 1 /\ all_films = <<>> /\ requests = <<>>
    /\ failed = {} /\ attempted = <<>> /\ prior = <<EmptyBag, {}, {}>>
    /\ ratings = EmptyBag /\ movies = {} /\ user_pool = {}
    /\ fetch_years = FALSE /\ tasks = <<>> /\ year_sem = 0 /\ year = <<>>
    /\ api = None

Next ==
    \/ BuildDatabaseNext
    \/ BuildDatabaseEnd
    \/ FetchFirstPage
    \/ FetchPage(BatchLis)
    \/ IngestPrepare
    \/ InsertRatingsStep(BOOLEAN)
    \/ UpsertUserPoolStep(BOOLEAN)
    \/ PrefillMoviesStep(BOOLEAN)
    \/ IngestReturn

Spec == Init /\ [][Next]_vars

\* one account, over pages with every shape of <li>, the store answering
\* every statement
InitAccount ==
    /\ star_str = None /\ called = TRUE /\ score = None
    /\ userList = <<"u1">>
    /\ idx = 1
    /\ pc = "loop"
    /\ display_name = None /\ page = 1 /\ all_films = <<>> /\ requests = <<>>
    /\ failed = {} /\ attempted = <<>> /\ prior = <<EmptyBag, {}, {}>>
    /\ ratings = EmptyBag /\ movies = {} /\ user_pool = {}
    /\ fetch_years = FALSE /\ tasks = <<>> /\ year_sem = 0 /\ year = <<>>
    /\ api = None

NextAccount ==
    \/ BuildDatabaseNext
    \/ BuildDatabaseEnd
    \/ FetchFirstPage
    \/ FetchPage(AccountLis)
    \/ IngestPrepare
    \/ InsertRatingsStep({TRUE})
    \/ UpsertUserPoolStep({TRUE})
    \/ PrefillMoviesStep({TRUE})
    \/ IngestReturn

SpecAccount == InitAccount /\ [][NextAccount]_vars

-----------------------------------------------------------------------------
(* stars_to_score on its own, over every rating string of the bound        *)

StarsToScoreCall ==
    /\ ~called
    /\ called' = TRUE
    /\ score' = stars_to_score(star_str)
    /\ UNCHANGED <<yearVars, star_str, batchVars, fetchVars, ingestVars, dbVars, api>>

InitStars ==
    /\ star_str \in Opt(Tokens) /\ called = FALSE /\ score = None
    /\ userList = <<>> /\ idx = 1 /\ pc = "done"
    /\ display_name = None /\ page = 1 /\ all_films = <<>> /\ requests = <<>>
    /\ failed = {} /\ attempted = <<>> /\ prior = <<EmptyBag, {}, {}>>
    /\ ratings = EmptyBag /\ movies = {} /\ user_pool = {}
    /\ fetch_years = FALSE /\ tasks = <<>> /\ year_sem = 0 /\ year = <<>>
    /\ api = None

NextStars == StarsToScoreCall

SpecStars == InitStars /\ [][NextStars]_vars

-----------------------------------------------------------------------------
(* The catalogue writes called directly: database.insert_movies and        *)
(* database.prefill_movies. api holds the last call.                       *)

MovieTuples ==
    {MovieRow(sl, t, p, y, Some(a)) :
        sl \in Slugs, t \in Opt(Titles), p \in Opt(Posters), y \in Opt(Years),
        a \in Amounts}

\* the VALUES lists of a direct call of insert_movies: one row, or one row
\* given twice
MovieBatches == {<<t>> : t \in MovieTuples} \cup {<<t, t>> : t \in MovieTuples}

Call(op, rows, ok) == [op |-> op, rows |-> rows, ok |-> ok]

\* database.insert_movies(films): it raises on a movie_id named twice, and
\* then changes nothing
InsertMoviesCall ==
    /\ \E films \in MovieBatches :
        LET ok == ~insert_movies_raises(films)
            after == database_insert_movies(movies, films)
        IN  /\ \A m \in after :
                 IF m.rating_amount = None THEN TRUE ELSE m.rating_amount[1] <= MaxAmount
            /\ movies' = IF ok THEN after ELSE movies
            /\ api' = Some(Call("insert_movies", films, ok))
    /\ UNCHANGED <<yearVars, starVars, batchVars, fetchVars, ingestVars, ratings, user_pool>>

\* database.prefill_movies(movies)
PrefillMoviesCall ==
    /\ \E rows \in {<<(<<sl>>)>> : sl \in Slugs} :
        /\ movies' = database_prefill_movies(movies, rows)
        /\ api' = Some(Call("prefill_movies", rows, TRUE))
    /\ UNCHANGED <<yearVars, starVars, batchVars, fetchVars, ingestVars, ratings, user_pool>>

InitMovies ==
    /\ star_str = None /\ called = TRUE /\ score = None
    /\ userList = <<>> /\ idx = 1 /\ pc = "done"
    /\ display_name = None /\ page = 1 /\ all_films = <<>> /\ requests = <<>>
    /\ failed = {} /\ attempted = <<>> /\ prior = <<EmptyBag, {}, {}>>
    /\ ratings = EmptyBag /\ movies = {} /\ user_pool = {}
    /\ fetch_years = FALSE /\ tasks = <<>> /\ year_sem = 0 /\ year = <<>>
    /\ api = None

NextMovies == InsertMoviesCall \/ PrefillMoviesCall

SpecMovies == InitMovies /\ [][NextMovies]_vars

-----------------------------------------------------------------------------
(* The bookmark upsert called directly: database.upsert_user_pool.         *)
(* api holds the calls that returned, oldest first.                        *)

PoolCall(u, n, p) == [user_id |-> u, username |-> n, last_page |-> p]

\* database.upsert_user_pool(user_id, display_name, last_page) returning
UpsertUserPoolCall ==
    /\ Len(api) < MaxCalls
    /\ \E u \in Users, n \in Opt(Names), p \in 0..MaxPages :
        /\ user_pool' = database_upsert_user_pool(user_pool, u, n, p)
        /\ api' = Append(api, PoolCall(u, n, p))
    /\ UNCHANGED <<yearVars, starVars, batchVars, fetchVars, ingestVars, ratings, movies>>

InitPool ==
    /\ star_str = None /\ called = TRUE /\ score = None
    /\ userList = <<>> /\ idx = 1 /\ pc = "done"
    /\ display_name = None /\ page = 1 /\ all_films = <<>> /\ requests = <<>>
    /\ failed = {} /\ attempted = <<>> /\ prior = <<EmptyBag, {}, {}>>
    /\ ratings = EmptyBag /\ movies = {} /\ user_pool = {}
    /\ fetch_years = FALSE /\ tasks = <<>> /\ year_sem = 0 /\ year = <<>>
    /\ api = <<>>

NextPool == UpsertUserPoolCall

SpecPool == InitPool /\ [][NextPool]_vars

-----------------------------------------------------------------------------
(* database.insert_movies called again and again, with the calls logged:   *)
(* api holds the calls made, oldest first.                                 *)

\* the tuples of these calls: a slug and a contribution to rating_amount
CounterTuples ==
    {MovieRow(sl, None, None, None, Some(a)) : sl \in Slugs, a \in 0..MaxAmount}

\* the VALUES lists of these calls: one row, or one row given twice
CounterBatches ==
    {<<t>> : t \in CounterTuples} \cup {<<t, t>> : t \in CounterTuples}

\* database.insert_movies(films): it raises on a movie_id named twice, and
\* then changes nothing
InsertMoviesLogged ==
    /\ Len(api) < MaxCalls
    /\ \E films \in CounterBatches :
        LET ok == ~insert_movies_raises(films)
        IN  /\ movies' = IF ok THEN database_insert_movies(movies, films) ELSE movies
            /\ api' = Append(api, Call("insert_movies", films, ok))
    /\ UNCHANGED <<yearVars, starVars, batchVars, fetchVars, ingestVars, ratings, user_pool>>

InitCounter ==
    /\ star_str = None /\ called = TRUE /\ score = None
    /\ userList = <<>> /\ idx = 1 /\ pc = "done"
    /\ display_name = None /\ page = 1 /\ all_films = <<>> /\ requests = <<>>
    /\ failed = {} /\ attempted = <<>> /\ prior = <<EmptyBag, {}, {}>>
    /\ ratings = EmptyBag /\ movies = {} /\ user_pool = {}
    /\ fetch_years = FALSE /\ tasks = <<>> /\ year_sem = 0 /\ year = <<>>
    /\ api = <<>>

NextCounter == InsertMoviesLogged

SpecCounter == InitCounter /\ [][NextCounter]_vars

-----------------------------------------------------------------------------
(* getUserMovies.fetch_rating_info with its enrichment pass: after the     *)
(* page loop, one task per film fetches the film's detail page under the   *)
(* semaphore year_sem and asyncio.gather waits for the tasks.              *)
(* Of a film dict only "slug" and "year" are kept, the pass reads and      *)
(* writes nothing else; film["year"] of film i is year[i].                 *)
(* pc: "y_first" (the GET of first_url), "y_loop" (the GET of a listing    *)
(* page), "y_after_loop" (the if statement after the for loop), "y_gather" *)
(* (await asyncio.gather), "y_returned" (return all_films), "y_raised" (an *)
(* exception left fetch_rating_info).                                      *)
(* tasks[i]: "created" (scheduled, or waiting for the semaphore),          *)
(* "fetching" (inside async with year_sem, its GET in flight), "done",     *)
(* "raised" (the task ended with an exception).                            *)

\* a film detail page as parse_year_from_html reads it: whether the release
\* date link is there, whether its text is an integer literal, its value
DetailDoc(tag, digits, value) == [tag |-> tag, digits |-> digits, value |-> value]

DetailDocs ==
    {DetailDoc(FALSE, FALSE, 0), DetailDoc(TRUE, FALSE, 0)}
    \cup {DetailDoc(TRUE, TRUE, y) : y \in Years}

\* getUserMovies.parse_year_from_html
parse_year_from_html(html) ==
    IF ~html.tag THEN None
    ELSE IF ~html.digits THEN None
    ELSE Some(html.value)

\* the outcomes of session.get(detail_url): it raised, or a response
DetailResponses ==
    {[kind |-> "error", status |-> 0, html |-> DetailDoc(FALSE, FALSE, 0)]}
    \cup {[kind |-> "http", status |-> st, html |-> d] : st \in {200, 404}, d \in DetailDocs}

\* step 1: GET first_url; an exception of session.get is not caught
YearsFirstPage ==
    /\ pc = "y_first"
    /\ \E raised \in BOOLEAN : pc' = IF raised THEN "y_raised" ELSE "y_loop"
    /\ UNCHANGED <<starVars, userList, idx, fetchVars, ingestVars, dbVars, api, yearVars>>

\* step 2: one round of the page loop; the page raises, ends the loop, or
\* gives one film
YearsPage ==
    /\ pc = "y_loop"
    /\ \/ pc' = "y_raised" /\ UNCHANGED <<page, all_films, year>>
       \/ pc' = "y_after_loop" /\ UNCHANGED <<page, all_films, year>>
       \/ \E sl \in Slugs :
            /\ all_films' = Append(all_films, [slug |-> sl])
            /\ year' = Append(year, None)
            /\ IF page >= MaxYearFilms
               THEN pc' = "y_after_loop" /\ UNCHANGED page
               ELSE pc' = "y_loop" /\ page' = page + 1
    /\ UNCHANGED <<starVars, userList, idx, display_name, requests, ingestVars,
                   dbVars, api, fetch_years, tasks, year_sem>>

\* "if fetch_years and all_films": the semaphore is made and one task per
\* film is scheduled, then gather is awaited; otherwise the function returns
YearsStart ==
    /\ pc = "y_after_loop"
    /\ IF fetch_years /\ all_films # <<>>
       THEN /\ year_sem' = Concurrency
            /\ tasks' = [i \in 1..Len(all_films) |-> "created"]
            /\ pc' = "y_gather"
       ELSE /\ pc' = "y_returned"
            /\ UNCHANGED <<year_sem, tasks>>
    /\ UNCHANGED <<starVars, userList, idx, fetchVars, ingestVars, dbVars, api,
                   fetch_years, year>>

\* sem_fetch_year entering its GET without "async with year_sem"
TaskAcquireUnbounded(i) ==
    /\ i \in 1..Len(tasks)
    /\ tasks[i] = "created"
    /\ tasks' = [tasks EXCEPT ![i] = "fetching"]
    /\ UNCHANGED <<starVars, batchVars, fetchVars, ingestVars, dbVars, api,
                   fetch_years, year_sem, year>>

\* sem_fetch_year(film i): "async with year_sem" acquires the semaphore
TaskAcquire(i) ==
    /\ i \in 1..Len(tasks)
    /\ tasks[i] = "created"
    /\ year_sem > 0
    /\ year_sem' = year_sem - 1
    /\ tasks' = [tasks EXCEPT ![i] = "fetching"]
    /\ UNCHANGED <<starVars, batchVars, fetchVars, ingestVars, dbVars, api,
                   fetch_years, year>>

\* sem_fetch_year(film i): the GET of the detail page is over; the year is
\* set on status 200 from the page, to None on another status, and an
\* exception of session.get ends the task; the semaphore is released
TaskFetched(i) ==
    /\ i \in 1..Len(tasks)
    /\ tasks[i] = "fetching"
    /\ \E r \in DetailResponses :
        IF r.kind = "error"
        THEN /\ tasks' = [tasks EXCEPT ![i] = "raised"]
             /\ UNCHANGED year
        ELSE /\ tasks' = [tasks EXCEPT ![i] = "done"]
             /\ year' = [year EXCEPT ![i] =
                             IF r.status = 200 THEN parse_year_from_html(r.html)
                             ELSE None]
    /\ year_sem' = year_sem + 1
    /\ UNCHANGED <<starVars, batchVars, fetchVars, ingestVars, dbVars, api,
                   fetch_years>>

\* await asyncio.gather(*tasks) returns when every task is done, and
\* fetch_rating_info returns all_films
GatherReturn ==
    /\ pc = "y_gather"
    /\ \A i \in 1..Len(tasks) : tasks[i] = "done"
    /\ pc' = "y_returned"
    /\ UNCHANGED <<starVars, userList, idx, fetchVars, ingestVars, dbVars, api, yearVars>>

\* await asyncio.gather(*tasks) raises as soon as a task has raised; nothing
\* catches it, the other tasks are left running
GatherRaise ==
    /\ pc = "y_gather"
    /\ \E i \in 1..Len(tasks) : tasks[i] = "raised"
    /\ pc' = "y_raised"
    /\ UNCHANGED <<starVars, userList, idx, fetchVars, ingestVars, dbVars, api, yearVars>>

InitYears ==
    /\ star_str = None /\ called = TRUE /\ score = None
    /\ userList = <<>> /\ idx = 1 /\ pc = "y_first"
    /\ display_name = None /\ page = 1 /\ all_films = <<>> /\ requests = <<>>
    /\ failed = {} /\ attempted = <<>> /\ prior = <<EmptyBag, {}, {}>>
    /\ ratings = EmptyBag /\ movies = {} /\ user_pool = {}
    /\ api = None
    /\ fetch_years \in BOOLEAN /\ tasks = <<>> /\ year_sem = 0 /\ year = <<>>

NextYears ==
    \/ YearsFirstPage
    \/ YearsPage
    \/ YearsStart
    \/ \E i \in 1..MaxYearFilms : TaskAcquire(i)
    \/ \E i \in 1..MaxYearFilms : TaskFetched(i)
    \/ GatherReturn
    \/ GatherRaise

SpecYears == InitYears /\ [][NextYears]_vars

-----------------------------------------------------------------------------
(* Properties *)

\* the ratings insert of the current account has returned without raising
RatingsInserted ==
    /\ pc \in {"upsert_user_pool", "prefill_movies", "ingested"}
    /\ "insert_ratings" \notin failed

\* the bookmark upsert of the current account has returned without raising
BookmarkUpserted ==
    /\ pc \in {"prefill_movies", "ingested"}
    /\ "upsert_user_pool" \notin failed

\* the listing-page requests of the current account, in the order made
PageRequests == SelectSeq(requests, LAMBDA q : q.url = "page")

\* the request was answered 200 with a page holding at least one <li> that
\* has its react-component and its slug
Yielded(q) ==
    /\ q.resp.kind = "http" /\ q.resp.status = 200 /\ q.resp.ul
    /\ \E i \in 1..Len(q.resp.items) :
          q.resp.items[i].react /\ q.resp.items[i].slug # None

RECURSIVE FilmsOfPages(_, _)
\* the films of the first k listing pages requested, page by page
FilmsOfPages(reqs, k) ==
    IF k = 0 THEN <<>>
    ELSE FilmsOfPages(reqs, k - 1) \o ExtractItems(reqs[k].resp.items, k, display_name)

SetMax(S) == CHOOSE x \in S : \A y \in S : y <= x

\* insert_ratings has prepared rating_rows and movies_row from the films
RowsPrepared ==
    pc \in {"insert_ratings", "upsert_user_pool", "prefill_movies", "ingested"}

\* the three store operations of the current account returned without raising
IngestedWithoutFailure == pc = "ingested" /\ failed = {}

(* C1: when ingestion of an account has just written its scraped result R  *)
(* to the ratings table, writing the identical R again for that account    *)
(* (a second ingestion run in a row) leaves the number of rows unchanged.  *)
C1_ReingestSameRowCount ==
    RatingsInserted =>
        RowCount(database_insert_ratings(ratings, RatingRowsOf(username, all_films)))
            = RowCount(ratings)

\* C1 witness: the same account is ingested a second time in a row, its
\* result holds two rated films of one slug, and its rows are written
C1_Witness ==
    /\ RatingsInserted
    /\ idx = 2 /\ userList[1] = userList[2]
    /\ Len(RatingRowsOf(username, all_films)) = 2
    /\ all_films[1].slug = all_films[2].slug
    /\ RowCount(ratings) = 1

(* C2: the ratings table never holds two rows with the same (user_id,      *)
(* movie_id) pair.                                                         *)
C2_OneRowPerAccountSlug ==
    \A r1 \in BagToSet(ratings) :
        /\ CopiesIn(r1, ratings) = 1
        /\ \A r2 \in BagToSet(ratings) : ratings_key(r1) = ratings_key(r2) => r1 = r2

\* C2 witness: a result listing one slug twice, with different ratings, has
\* been written and the table holds one row for it
C2_Witness ==
    /\ RatingsInserted
    /\ \E i, j \in 1..Len(all_films) :
        /\ i < j /\ all_films[i].slug = all_films[j].slug
        /\ Truthy(all_films[i].rating) /\ Truthy(all_films[j].rating)
        /\ all_films[i].rating # all_films[j].rating
    /\ RowCount(ratings) >= 1

(* C3: every rating stored in the ratings table lies in 0..10.             *)
C3_RatingsInRange ==
    \A r \in BagToSet(ratings) : r.rating \in 0..10

(* C4: for f full marks followed by h half marks, 0 <= f <= 5, 0 <= h <= 1,*)
(* f + h >= 1, stars_to_score returns 2*f + h; for None and for the empty  *)
(* string it returns None.                                                 *)
C4_StarsToScore ==
    called =>
        /\ (star_str = None \/ star_str = Some(<<>>)) => score = None
        /\ \A f \in 0..5, h \in 0..1 :
              (f + h >= 1 /\ star_str = Some(Stars(f, h))) => score = Some(2 * f + h)

\* C4 witness: "★★★½" has been decoded
C4_Witness == called /\ star_str = Some(Stars(3, 1)) /\ score = Some(7)

(* C5: the last_page_scraped that ingestion writes to the account's        *)
(* user_pool row is the highest page that yielded at least one film.       *)
C5_BookmarkIsHighestYieldingPage ==
    BookmarkUpserted =>
        /\ Cardinality({r \in user_pool : r.user_id = username}) = 1
        /\ \A r \in user_pool :
              r.user_id = username =>
                  r.last_page_scraped =
                      SetMax({PageRequests[i].page : i \in
                                 {j \in 1..Len(PageRequests) : Yielded(PageRequests[j])}})

\* C5 witness: page 1 has a film, page 2 answers 200 with an empty
\* container, and the bookmark written is 1
C5_Witness ==
    /\ BookmarkUpserted
    /\ Len(PageRequests) = 2
    /\ Yielded(PageRequests[1])
    /\ PageRequests[2].resp.kind = "http" /\ PageRequests[2].resp.status = 200
    /\ PageRequests[2].resp.ul /\ PageRequests[2].resp.items = <<>>
    /\ \E r \in user_pool : r.user_id = username /\ r.last_page_scraped = 1

\* listing page n >= 2 was answered with a status other than 200 after pages
\* 1..n-1 each yielded a film
C6_Case(n) ==
    /\ n >= 2 /\ n <= Len(PageRequests)
    /\ PageRequests[n].resp.kind = "http" /\ PageRequests[n].resp.status # 200
    /\ \A i \in 1..(n - 1) : Yielded(PageRequests[i])

(* C6: when page n >= 2 answers with a status other than 200 after pages   *)
(* 1..n-1 yielded films, fetch_rating_info returns at once with the films  *)
(* of pages 1..n-1 in page order, page n stays the last page requested,    *)
(* and the bookmark is n-1.                                                *)
C6_FailureOnLaterPage ==
    \A n \in 1..Len(PageRequests) :
        C6_Case(n) =>
            /\ pc \in {"scraped", "insert_ratings", "upsert_user_pool",
                       "prefill_movies", "ingested"}
            /\ n = Len(PageRequests)
            /\ \A i \in 1..n : PageRequests[i].page = i
            /\ requests[Len(requests)] = PageRequests[n]
            /\ all_films = FilmsOfPages(PageRequests, n - 1)
            /\ LastPageOf(all_films) = n - 1
            /\ BookmarkUpserted =>
                  \E r \in user_pool : r.user_id = username /\ r.last_page_scraped = n - 1

\* C6 witness: page 2 answered 404 after page 1 gave a film, and the account
\* is ingested with bookmark 1
C6_Witness ==
    /\ C6_Case(2)
    /\ pc = "ingested" /\ failed = {}
    /\ Len(all_films) = 1
    /\ \E r \in user_pool : r.user_id = username /\ r.last_page_scraped = 1

(* C7: no fault of one account ends the batch while later accounts of the  *)
(* list are still to be processed.                                         *)
C7_BatchSurvivesAccountFault ==
    ~(pc = "crashed" /\ idx < Len(userList))

(* C8: a direct catalogue write never turns a non-null title, poster_link  *)
(* or release_year of a movies row into null, and an insert_movies whose   *)
(* incoming value for such a field is null leaves the stored value as it is*)
C8_NoRegressionToNull ==
    [][\A m \in movies :
          \E m2 \in movies' :
            /\ m2.movie_id = m.movie_id
            /\ m.title # None => m2.title # None
            /\ m.poster_link # None => m2.poster_link # None
            /\ m.release_year # None => m2.release_year # None
            /\ \A i \in 1..Len(api'[1].rows) :
                  LET x == api'[1].rows[i]
                  IN  (api'[1].op = "insert_movies" /\ x.movie_id = m.movie_id) =>
                        /\ (x.title = None => m2.title = m.title)
                        /\ (x.poster_link = None => m2.poster_link = m.poster_link)
                        /\ (x.release_year = None => m2.release_year = m.release_year)
      ]_vars

\* C8 witness: insert_movies with title NULL has run on a row that keeps a
\* title, and gained a release year
C8_Witness ==
    /\ api # None
    /\ api[1].op = "insert_movies" /\ api[1].ok
    /\ api[1].rows[1].title = None /\ api[1].rows[1].release_year # None
    /\ \E m \in movies :
        /\ m.movie_id = api[1].rows[1].movie_id
        /\ m.title # None
        /\ m.rating_amount = Some(2)

(* C9: no step of an ingestion changes the rating_amount of a movies row:  *)
(* ingesting a result again leaves rating_amount of every slug unchanged,  *)
(* and a row it adds carries no count.                                     *)
C9_IngestionKeepsRatingAmount ==
    [][/\ \A m \in movies :
            \E m2 \in movies' :
                m2.movie_id = m.movie_id /\ m2.rating_amount = m.rating_amount
       /\ \A m2 \in movies' :
            MovieOf(movies, m2.movie_id) = {} => m2.rating_amount = rating_amount_default
      ]_vars

\* C9 witness: the same account has been ingested a second time in a row,
\* with rated films whose rows and catalogue entries are stored
C9_Witness ==
    /\ pc = "ingested" /\ failed = {}
    /\ idx = 2 /\ userList[1] = userList[2]
    /\ Len(MoviesRowOf(all_films)) = 2
    /\ Cardinality(movies) = 2
    /\ \A m \in movies : m.rating_amount = rating_amount_default

\* the last call of upsert_user_pool for account u, among the calls made
LatestCall(u) ==
    api[SetMax({i \in 1..Len(api) : api[i].user_id = u})]

(* C10: after any sequence of upsert_user_pool calls the table holds       *)
(* exactly one row per account upserted, with the username and             *)
(* last_page_scraped of the most recent call for that account.             *)
C10_BookmarkLastWriteWins ==
    /\ \A u \in Users :
        Cardinality({r \in user_pool : r.user_id = u})
            = IF \E i \in 1..Len(api) : api[i].user_id = u THEN 1 ELSE 0
    /\ \A r \in user_pool :
        /\ r.username = LatestCall(r.user_id).username
        /\ r.last_page_scraped = LatestCall(r.user_id).last_page

\* C10 witness: an account upserted with a name and page 2, then with no name
\* and page 1, holds the second call's values
C10_Witness ==
    /\ Len(api) = 2
    /\ api[1].user_id = api[2].user_id
    /\ api[1].username # None /\ api[1].last_page = 2
    /\ api[2].username = None /\ api[2].last_page = 1
    /\ user_pool = {PoolRow(api[2].user_id, None, 1)}

(* C11: no step of a batch run removes or changes a stored ratings row; a   *)
(* ratings insert that carries another rating or liked value for a stored  *)
(* (user_id, movie_id) leaves the stored row as it is.                     *)
C11_RatingsAppendOnly ==
    [][\A r \in BagToSet(ratings) :
          /\ CopiesIn(r, ratings') = CopiesIn(r, ratings)
          /\ \A r2 \in BagToSet(ratings') :
                ratings_key(r2) = ratings_key(r) => r2 = r
      ]_vars

\* C11 witness: the account is ingested a second time; its ratings insert
\* returned without raising, carrying a film stored as 7 and liked now rated
\* 12 and not liked, and the table still holds the first row only
C11_Witness ==
    /\ RatingsInserted
    /\ idx = 2 /\ userList[1] = userList[2]
    /\ \E i \in 1..Len(all_films) :
        /\ all_films[i].rating = Some(12) /\ ~all_films[i].liked
        /\ RatingRow(username, 7, TRUE, all_films[i].slug) \in BagToSet(prior[1])
        /\ RatingRow(username, 7, TRUE, all_films[i].slug) \in BagToSet(ratings)
        /\ RatingRow(username, 12, FALSE, all_films[i].slug) \notin BagToSet(ratings)

(* C12: after an ingestion whose three store operations succeeded, every   *)
(* scraped film, rated or not, has a movies row keyed by its slug.         *)
C12_EveryFilmInCatalogue ==
    IngestedWithoutFailure =>
        \A i \in 1..Len(all_films) : MovieOf(movies, all_films[i].slug) # {}

(* C13: ingestion never submits a film scraped without a rating to the     *)
(* ratings table: every row of rating_rows, and every row stored for the   *)
(* account, comes from a scraped film that has a rating, with its values.  *)
C13_NoRowForAbsentRating ==
    RowsPrepared =>
        LET rows == RatingRowsOf(username, all_films)
            FromRatedFilm(r) ==
                \E j \in 1..Len(all_films) :
                    /\ all_films[j].rating # None
                    /\ r = RatingRow(username, all_films[j].rating[1],
                                     all_films[j].liked, all_films[j].slug)
        IN  /\ \A k \in 1..Len(rows) : FromRatedFilm(rows[k])
            /\ \A r \in BagToSet(ratings) : FromRatedFilm(r)

\* C13 witness: a result of one film without a rating and one rated film is
\* ingested, and the table holds the rated film's row only
C13_Witness ==
    /\ IngestedWithoutFailure
    /\ Len(all_films) = 2
    /\ all_films[1].rating = None /\ all_films[2].rating = Some(7)
    /\ RowCount(ratings) = 1

(* C14: ingestion submits a ratings row for every scraped film whose rating *)
(* is not absent, rating 0 included.                                        *)
C14_EveryRatedFilmSubmitted ==
    RowsPrepared =>
        LET rows == RatingRowsOf(username, all_films)
        IN  \A i \in 1..Len(all_films) :
                all_films[i].rating # None =>
                    \E k \in 1..Len(rows) :
                        rows[k] = RatingRow(username, all_films[i].rating[1],
                                            all_films[i].liked, all_films[i].slug)

\* the store operations of insert_ratings, in the order of the code
StoreOperations == <<"insert_ratings", "upsert_user_pool", "prefill_movies">>

(* C15: within one account's ingestion the three store operations are      *)
(* called once each, in order, whichever of them raised DatabaseError: a   *)
(* failure is caught, and the ingestion goes on to the next operation.     *)
C15_EachStoreOperationOnce ==
    /\ Len(attempted) <= 3
    /\ attempted = SubSeq(StoreOperations, 1, Len(attempted))
    /\ failed \subseteq {attempted[i] : i \in 1..Len(attempted)}
    /\ attempted # <<>> =>
          pc = (<<"upsert_user_pool", "prefill_movies", "ingested">>)[Len(attempted)]
    /\ pc = "ingested" => attempted = StoreOperations

\* C15 witness: the ratings insert and the bookmark upsert both raised, and
\* the catalogue write was still called and stored its rows
C15_Witness ==
    /\ pc = "ingested"
    /\ failed = {"insert_ratings", "upsert_user_pool"}
    /\ attempted = StoreOperations
    /\ ratings = EmptyBag /\ user_pool = {}
    /\ movies # {}

(* C16: when listing page 1 is answered and yields no film (a status other *)
(* than 200, no container, or an empty container), the ingestion of the    *)
(* account does not raise.                                                 *)
C16_EmptyFirstPageCompletes ==
    (/\ Len(PageRequests) = 1
     /\ PageRequests[1].page = 1
     /\ PageRequests[1].resp.kind = "http"
     /\ ~Yielded(PageRequests[1])
     /\ all_films = <<>>)
        => pc # "crashed"

(* C17: whatever subset of its three store operations failed, once an      *)
(* ingestion of a scraped result is over, ingesting the same result again  *)
(* without failure gives the tables that one ingestion without failure     *)
(* gives on the tables the account started from.                           *)
C17_RerunRecovers ==
    pc = "ingested" =>
        IngestAll(dbVars, username, all_films) = IngestAll(prior, username, all_films)

\* C17 witness: the second account of the batch starts from tables that hold
\* rows, all three of its store operations raised, and the rerun of its rated
\* films changes the tables
C17_Witness ==
    /\ pc = "ingested" /\ idx = 2
    /\ failed = {"insert_ratings", "upsert_user_pool", "prefill_movies"}
    /\ prior[1] # EmptyBag /\ prior[2] # {} /\ prior[3] # {}
    /\ dbVars = prior
    /\ Len(RatingRowsOf(username, all_films)) >= 1
    /\ IngestAll(dbVars, username, all_films)[1] # ratings
    /\ IngestAll(dbVars, username, all_films)[3] # user_pool

(* C18: a listing-page GET that raises (timeout, transport error) after    *)
(* films were collected ends the pagination like a status other than 200:  *)
(* fetch_rating_info returns the films collected and nothing is raised.    *)
C18_FetchErrorEndsPagination ==
    (/\ Len(PageRequests) >= 1
     /\ PageRequests[Len(PageRequests)].resp.kind = "error"
     /\ all_films # <<>>)
        => pc \in {"scraped", "insert_ratings", "upsert_user_pool",
                   "prefill_movies", "ingested"}

(* C19: the listing pages of one account are requested one after the      *)
(* other in the order 1, 2, 3, ... without a gap, the next request being   *)
(* made only when the previous one is answered, and the pages of the films *)
(* collected never decrease along the list.                                *)
C19_PagesInOrder ==
    /\ \A i \in 1..Len(PageRequests) : PageRequests[i].page = i
    /\ pc = "page_loop" => page = Len(PageRequests) + 1
    /\ \A i, j \in 1..Len(all_films) :
          i <= j => all_films[i].page <= all_films[j].page
    /\ \A i \in 1..Len(all_films) :
          /\ all_films[i].page \in 1..Len(PageRequests)
          /\ Yielded(PageRequests[all_films[i].page])

\* C19 witness: pages 1 and 2 were requested in this order, each gave a film,
\* and the scrape has returned them in page order
C19_Witness ==
    /\ pc = "scraped"
    /\ Len(PageRequests) = 2
    /\ PageRequests[1].page = 1 /\ PageRequests[2].page = 2
    /\ Len(all_films) = 2
    /\ all_films[1].page = 1 /\ all_films[2].page = 2

(* C20: one account's scrape requests at most max_pages listing pages,     *)
(* none with an index above max_pages, and leaves the page loop once page  *)
(* max_pages is answered, also when every page holds items.                *)
C20_AtMostMaxPages ==
    /\ Len(PageRequests) <= MaxPages
    /\ \A i \in 1..Len(PageRequests) : PageRequests[i].page \in 1..MaxPages
    /\ pc = "page_loop" => Len(PageRequests) < MaxPages /\ page <= MaxPages

\* C20 witness: every page up to max_pages held a film, no further page was
\* requested and the account is ingested
C20_Witness ==
    /\ pc = "ingested"
    /\ Len(PageRequests) = MaxPages
    /\ \A i \in 1..MaxPages : Yielded(PageRequests[i])
    /\ LastPageOf(all_films) = MaxPages

\* the request was answered 200 with a container whose <li> elements, at
\* least one, all lack the react-component or the slug
AllItemsSkipped(q) ==
    /\ q.resp.kind = "http" /\ q.resp.status = 200 /\ q.resp.ul
    /\ q.resp.items # <<>>
    /\ ~Yielded(q)

(* C21: a listing page whose container holds <li> elements none of which   *)
(* gives a film is the last page requested for the account.                *)
C21_UnparseablePageEndsPagination ==
    \A i \in 1..Len(PageRequests) :
        AllItemsSkipped(PageRequests[i]) => i = Len(PageRequests)

(* C22: every HTTP request of one account's scrape is a listing-page fetch; *)
(* none is made only to read the display name.                              *)
C22_NoRequestForDisplayName ==
    \A i \in 1..Len(requests) : requests[i].url = "page"

\* min of two integers
Min(a, b) == IF a <= b THEN a ELSE b

(* C23: for a rating string with f full marks and h half marks,            *)
(* stars_to_score returns 2*min(f,5) + min(h,1).                           *)
C23_StarsToScoreClamped ==
    (called /\ star_str # None /\ star_str # Some(<<>>)) =>
        score = Some(2 * Min(Count(star_str[1], "full"), 5)
                     + Min(Count(star_str[1], "half"), 1))

RECURSIVE RowsAmount(_, _)
\* the rating_amount that the rows of one VALUES list bring to slug sl
RowsAmount(rows, sl) ==
    IF rows = <<>> THEN 0
    ELSE (IF Head(rows).movie_id = sl THEN Head(rows).rating_amount[1] ELSE 0)
         + RowsAmount(Tail(rows), sl)

RECURSIVE Contributed(_, _)
\* the rating_amount that the calls of this log which returned brought to sl
Contributed(calls, sl) ==
    IF calls = <<>> THEN 0
    ELSE (IF Head(calls).ok THEN RowsAmount(Head(calls).rows, sl) ELSE 0)
         + Contributed(Tail(calls), sl)

\* some call of the log that returned names slug sl
Named(calls, sl) ==
    \E i \in 1..Len(calls) :
        calls[i].ok /\ \E k \in 1..Len(calls[i].rows) : calls[i].rows[k].movie_id = sl

(* C24: after any sequence of insert_movies calls with contributions >= 0, *)
(* a slug named by a call has one movies row whose rating_amount is the    *)
(* sum of the contributions received, which is at least the sum received   *)
(* up to any earlier point: the amount is added to, never replaced.        *)
C24_RatingAmountIsSum ==
    \A sl \in Slugs :
        IF Named(api, sl)
        THEN /\ Cardinality(MovieOf(movies, sl)) = 1
             /\ \A m \in MovieOf(movies, sl) :
                   /\ m.rating_amount = Some(Contributed(api, sl))
                   /\ \A k \in 0..Len(api) :
                         Contributed(SubSeq(api, 1, k), sl) <= m.rating_amount[1]
        ELSE MovieOf(movies, sl) = {}

\* C24 witness: three calls for one slug brought 2, then 0, then 1, and the
\* row holds 3
C24_Witness ==
    /\ Len(api) = 3
    /\ \A i \in 1..3 : api[i].ok /\ api[i].rows[1].movie_id = "s1"
    /\ api[1].rows[1].rating_amount = Some(2)
    /\ api[2].rows[1].rating_amount = Some(0)
    /\ api[3].rows[1].rating_amount = Some(1)
    /\ \E m \in movies : m.movie_id = "s1" /\ m.rating_amount = Some(3)

\* the rows of account u in tables ratings and user_pool
RatingsOf(tbl, u) == {r \in BagToSet(tbl) : r.user_id = u}
BookmarkOf(tbl, u) == {r \in tbl : r.user_id = u}

(* C27: no step of the ingestion of one account changes the ratings rows   *)
(* or the user_pool row of another account.                                *)
C27_OtherAccountsUntouched ==
    [][\A u \in Users :
          (idx <= Len(userList) /\ u # userList[idx]) =>
              /\ RatingsOf(ratings', u) = RatingsOf(ratings, u)
              /\ \A r \in RatingsOf(ratings, u) :
                    CopiesIn(r, ratings') = CopiesIn(r, ratings)
              /\ BookmarkOf(user_pool', u) = BookmarkOf(user_pool, u)
      ]_vars

\* C27 witness: the second account of the batch is ingested after another
\* one, both rated the same slug, and the first account's rows are as its
\* own ingestion left them
C27_Witness ==
    /\ pc = "ingested" /\ failed = {} /\ idx = 2
    /\ userList[1] # userList[2]
    /\ RatingsOf(ratings, userList[1]) # {}
    /\ RatingsOf(ratings, userList[1]) = RatingsOf(prior[1], userList[1])
    /\ BookmarkOf(user_pool, userList[1]) = BookmarkOf(prior[3], userList[1])
    /\ BookmarkOf(user_pool, userList[1]) # {}
    /\ \E r1 \in RatingsOf(ratings, userList[1]), r2 \in RatingsOf(ratings, userList[2]) :
          r1.movie_id = r2.movie_id /\ r1.rating # r2.rating

\* the films whose detail-page fetch is in flight
InFlight == {i \in 1..Len(tasks) : tasks[i] = "fetching"}

(* C25: in the enrichment pass at most `concurrency` detail-page fetches   *)
(* are in flight at any moment; no task exists before the page loop has    *)
(* ended; and when fetch_rating_info returns, every film has its task and  *)
(* every task is done.                                                     *)
C25_EnrichmentBounded ==
    /\ Cardinality(InFlight) <= Concurrency
    /\ tasks # <<>> => year_sem = Concurrency - Cardinality(InFlight)
    /\ pc \in {"y_first", "y_loop", "y_after_loop"} => tasks = <<>>
    /\ tasks # <<>> => Len(tasks) = Len(all_films)
    /\ pc = "y_returned" =>
          /\ (fetch_years /\ all_films # <<>>) => Len(tasks) = Len(all_films)
          /\ \A i \in 1..Len(tasks) : tasks[i] = "done"

\* C25 witness: with more films than `concurrency`, the semaphore is used up
\* and a task waits while `concurrency` fetches are in flight
C25_Witness ==
    /\ pc = "y_gather"
    /\ Len(all_films) > Concurrency
    /\ Cardinality(InFlight) = Concurrency
    /\ year_sem = 0
    /\ \E i \in 1..Len(tasks) : tasks[i] = "created"

(* C26: a detail-page fetch that fails, by its status or by raising, never *)
(* makes fetch_rating_info raise.                                          *)
C26_EnrichmentFailureContained ==
    (\E i \in 1..Len(tasks) : tasks[i] = "raised") => pc # "y_raised"

=============================================================================
